---- MODULE Spec2Model ----
(***************************************************************************)
(* Ingestion worker of posthog-session-insights: the raw_event queue       *)
(* table, the claim of batches (SELECT ... FOR UPDATE SKIP LOCKED), the    *)
(* per-event transaction (session upsert, enrichment, enriched insert,     *)
(* session counters, mark DONE) and the compensating mark-FAILED           *)
(* transaction, run by several worker processes against one PostgreSQL     *)
(* database at READ COMMITTED.                                             *)
(*                                                                         *)
(* Committed rows live in raw, session and enriched_event.  A transaction  *)
(* in flight is a task whose pc lies between "upsert" and "commit"; its    *)
(* uncommitted writes are determined by its pc and its local variables and *)
(* are applied to the tables by Commit, or dropped by a rollback.          *)
(***************************************************************************)
EXTENDS Integers, Sequences, FiniteSets, TLC

\* ------------------------------------------------------------------ bounds
\* worker processes running main() against the same database
NumWorkers == 2
\* raw rows the HTTP ingest inserts in one behaviour of several workers
MaxRaw == 2
\* raw rows the HTTP ingest inserts in one behaviour of a worker running alone
MaxRawOne == 3
\* longest event list passed to PatternEngine.detect
MaxEvents == 2
\* longest event list passed to detect where rules with windows are checked
MaxWindowEvents == 3
\* length of the longest page title, element text and property value
LongTextLen == 160
\* longest text passed to truncate_text directly, and largest max_length
MaxText == 4
MaxLength == 5
\* calls of build made on one SemanticLabelBuilder
MaxBuilds == 1
\* SEMANTIC_LABEL_MAX_LENGTH of semantic_builder_services.py
SEMANTIC_LABEL_MAX_LENGTH == 150
\* longest rule list a PatternEngine is constructed with
MaxRules == 2
\* calls of detect on one engine in one behaviour
MaxCalls == 2
\* exceptions (database errors, panics) injected in one behaviour
MaxFaults == 1
\* instants an event timestamp is drawn from
MaxTime == 2
\* ingestion_worker.BATCH_SIZE (200 in the source), scaled to the model
BATCH_SIZE == 3
\* permits of ingestion_worker.semaphore (10 in the source), scaled
MAX_CONCURRENCY == 2

NULL == "NULL"
PENDING == "PENDING"
DONE == "DONE"
FAILED == "FAILED"

Workers == 1..NumWorkers
RawIds == 1..(IF MaxRaw > MaxRawOne THEN MaxRaw ELSE MaxRawOne)
SessionIds == {"s1"}
UserIds == {"u1", "u2"}
\* (event name, properties["$pathname"]) of the events the tracker sends
EventKinds == {<<"$pageview", "/a">>, <<"$autocapture", NULL>>, <<"$autocapture", "">>}

\* A PostHogEvent as the ingest endpoint accepts it; session_id and pathname
\* are properties["$session_id"] and properties["$pathname"], NULL if absent.
\* One event without $session_id stands for all of them: process_single_event
\* reads nothing else of such an event.
PostHogEvent ==
    {[event_name |-> k[1], user_id |-> u, timestamp |-> t, session_id |-> s, pathname |-> k[2]] :
        k \in EventKinds, u \in UserIds, t \in 1..MaxTime, s \in SessionIds}
    \cup {[event_name |-> "$pageview", user_id |-> "u1", timestamp |-> 1,
           session_id |-> NULL, pathname |-> "/a"]}

VARIABLES
    raw,              \* raw_event table: sequence in created_at order, index = raw_event_id
    session,          \* session table: function from the session_ids that have a row to the row
    enriched_event,   \* enriched_event table: sequence of rows in commit order
    wpc,              \* per worker: position in main()/process_batch()
    shutdown_event,   \* per worker: the asyncio.Event set by handle_shutdown
    raw_events,       \* per worker: the list fetch_events_for_processing returned
    task,             \* per worker, per raw_event_id: the process_with_semaphore task
    faults,           \* exceptions injected so far
    rules,            \* PatternEngine._rules: the rule list given at construction
    events,           \* the event list object the caller passes to detect
    ctx,              \* the SessionContext the caller passes to detect
    results,          \* what the calls of detect made so far returned, in call order
    builder,          \* the SemanticLabelBuilder: its max_length
    label_calls,      \* the calls of SemanticLabelBuilder.build made so far: arguments and label
    text_call,        \* the last call of truncate_text: arguments and result
    handed            \* history: per raw_event_id, how many tasks it was handed to (2 = more than one)

\* the pattern engine and the arguments of its caller
engine_vars == <<rules, events, ctx, results>>

\* the label builder and the text helpers
label_vars == <<builder, label_calls, text_call>>

vars == <<raw, session, enriched_event, wpc, shutdown_event, raw_events, task, faults, engine_vars, label_vars, handed>>

\* the local variable "session" of process_single_event before it is assigned
NoSession ==
    [session_id |-> NULL, user_id |-> NULL, started_at |-> 0, last_activity_at |-> 0,
     event_count |-> 0, page_views_count |-> 0, clicks_count |-> 0,
     first_page |-> NULL, last_page |-> NULL]

NoTask == [pc |-> "none", session |-> NoSession, created |-> FALSE]

\* ------------------------------------------------------------- pure helpers

\* event_parsing.classify_event: event_type of an event name
classify_event(event_name) ==
    CASE event_name = "$pageview" -> "pageview"
      [] event_name = "$pageleave" -> "navigation"
      [] event_name = "$rageclick" -> "click"
      [] event_name = "$autocapture" -> "click"
      [] OTHER -> "custom"

\* event_parsing.normalize_page_path on the paths of the model
normalize_page_path(page_path) ==
    IF page_path = "/a/" THEN "/a" ELSE page_path

\* event_parsing.extract_page_info: page_path = properties.get("$pathname", "/")
extract_page_info(pathname) ==
    normalize_page_path(IF pathname = NULL THEN "/" ELSE pathname)

\* enrichment_services.enrich_event(event, session): the EnrichedEventCreate
enrich_event(r, event, sess) ==
    [raw_event_id |-> r,
     user_id |-> event.user_id,
     session_id |-> sess.session_id,
     timestamp |-> event.timestamp,
     event_type |-> classify_event(event.event_name),
     page_path |-> extract_page_info(event.pathname),
     sequence_number |-> sess.event_count + 1]

\* ------------------------------------------------------------------- locks

InTx == {"upsert", "enrich", "markdone", "commit"}
InFlight == InTx \cup {"except", "stuck"}

\* the transaction of task (w, r) holds the row lock of raw row r
TaskLocksRaw(w, r) == task[w][r].pc = "commit"

\* the claim transaction of worker w holds the row lock of raw row r
ClaimLocksRaw(w, r) ==
    /\ wpc[w] = "claimed"
    /\ \E i \in 1..Len(raw_events[w]) : raw_events[w][i] = r

RawLockedByOther(w, r) ==
    \E w2 \in Workers \ {w} : TaskLocksRaw(w2, r) \/ ClaimLocksRaw(w2, r)

RawLocked(r) ==
    \E w2 \in Workers : TaskLocksRaw(w2, r) \/ ClaimLocksRaw(w2, r)

\* task (w, r) holds an uncommitted insert of the session row s
HoldsInsert(w, r, s) ==
    /\ r <= Len(raw)
    /\ raw[r].session_id = s
    /\ task[w][r].created
    /\ task[w][r].pc \in {"enrich", "markdone", "commit"}

\* task (w, r) holds the row lock of session row s (uncommitted insert or update)
HoldsSession(w, r, s) ==
    /\ r <= Len(raw)
    /\ raw[r].session_id = s
    /\ \/ task[w][r].pc \in {"markdone", "commit"}
       \/ HoldsInsert(w, r, s)

SessionLockedByOther(w, r, s) ==
    \E w2 \in Workers, r2 \in RawIds :
        <<w2, r2>> # <<w, r>> /\ HoldsSession(w2, r2, s)

InsertHeldByOther(w, r, s) ==
    \E w2 \in Workers, r2 \in RawIds :
        <<w2, r2>> # <<w, r>> /\ HoldsInsert(w2, r2, s)

\* ------------------------------------------------------------------- Init

\* the database and the workers at start
WorkerInit ==
    /\ raw = <<>>
    /\ session = [s \in {} |-> NULL]
    /\ enriched_event = <<>>
    /\ wpc = [w \in Workers |-> "loop"]
    /\ shutdown_event = [w \in Workers |-> FALSE]
    /\ raw_events = [w \in Workers |-> <<>>]
    /\ task = [w \in Workers |-> [r \in RawIds |-> NoTask]]
    /\ faults = 0
    /\ handed = [r \in RawIds |-> 0]

\* the worker process builds no PatternEngine (only the API does)
EngineIdle ==
    /\ rules = <<>>
    /\ events = <<>>
    /\ ctx = <<>>
    /\ results = <<>>

\* no call of truncate_text is on record
NoCall == [fn |-> "none"]

LabelIdle ==
    /\ builder = [max_length |-> SEMANTIC_LABEL_MAX_LENGTH]
    /\ label_calls = <<>>
    /\ text_call = NoCall

Init == WorkerInit /\ EngineIdle /\ LabelIdle

\* ---------------------------------------------------------------- ingest

\* persist_services.insert_raw_event: one row with status PENDING
insert_raw_event(event) ==
    /\ Len(raw) < Cardinality(RawIds)
    /\ raw' = Append(raw, [event_name |-> event.event_name,
                           user_id |-> event.user_id,
                           timestamp |-> event.timestamp,
                           session_id |-> event.session_id,
                           pathname |-> event.pathname,
                           processed_at |-> NULL,
                           status |-> PENDING])
    /\ UNCHANGED <<session, enriched_event, wpc, shutdown_event, raw_events, task, faults, engine_vars, label_vars, handed>>

\* ----------------------------------------------------------- worker loop

Min(a, b) == IF a <= b THEN a ELSE b

\* Claimable with the status condition of the WHERE clause left out
ClaimableAnyStatus(r) ==
    /\ raw[r].processed_at = NULL
    /\ ~RawLocked(r)

\* the WHERE clause and SKIP LOCKED of fetch_events_for_processing
Claimable(r) ==
    /\ raw[r].processed_at = NULL
    /\ raw[r].status = PENDING
    /\ ~RawLocked(r)

\* query_services.fetch_events_for_processing: ORDER BY created_at LIMIT batch_size
fetch_events_for_processing(batch_size) ==
    LET ids == [i \in 1..Len(raw) |-> i]
        rows == SelectSeq(ids, LAMBDA i : Claimable(i))
    IN  SubSeq(rows, 1, Min(batch_size, Len(rows)))

InBatch(w, r) == \E i \in 1..Len(raw_events[w]) : raw_events[w][i] = r

\* main: while not shutdown_event.is_set(); process_batch opens the claim
\* transaction and selects the batch, locking its rows
ClaimBatch(w) ==
    /\ wpc[w] = "loop"
    /\ ~shutdown_event[w]
    /\ raw_events' = [raw_events EXCEPT ![w] = fetch_events_for_processing(BATCH_SIZE)]
    /\ wpc' = [wpc EXCEPT ![w] = "claimed"]
    /\ UNCHANGED <<raw, session, enriched_event, shutdown_event, task, faults, engine_vars, label_vars, handed>>

\* process_batch that creates the tasks inside the claim transaction
ClaimCommitLate(w) ==
    /\ wpc[w] = "claimed"
    /\ raw_events[w] # <<>>
    /\ \A r \in RawIds : task[w][r].pc = "none"
    /\ task' = [task EXCEPT ![w] =
                  [r \in RawIds |-> IF InBatch(w, r)
                                    THEN [NoTask EXCEPT !.pc = "pending"]
                                    ELSE NoTask]]
    /\ handed' = [r \in RawIds |->
                     IF InBatch(w, r) THEN Min(handed[r] + 1, 2) ELSE handed[r]]
    /\ UNCHANGED <<raw, session, enriched_event, wpc, shutdown_event, raw_events, faults, engine_vars, label_vars>>

\* process_batch: the claim transaction commits (locks released); an empty
\* batch returns 0, otherwise one task per claimed event is created
ClaimCommit(w) ==
    /\ wpc[w] = "claimed"
    /\ IF raw_events[w] = <<>>
       THEN /\ wpc' = [wpc EXCEPT ![w] = "sleep"]
            /\ task' = task
       ELSE /\ wpc' = [wpc EXCEPT ![w] = "gather"]
            /\ task' = [task EXCEPT ![w] =
                          [r \in RawIds |-> IF InBatch(w, r)
                                            THEN [NoTask EXCEPT !.pc = "pending"]
                                            ELSE NoTask]]
    /\ handed' = [r \in RawIds |->
                     IF InBatch(w, r) THEN Min(handed[r] + 1, 2) ELSE handed[r]]
    /\ UNCHANGED <<raw, session, enriched_event, shutdown_event, raw_events, faults, engine_vars, label_vars>>

\* process_batch that returns as soon as one task has returned
BatchDoneNoWait(w) ==
    /\ wpc[w] = "gather"
    /\ \E r \in RawIds : InBatch(w, r) /\ task[w][r].pc = "done"
    /\ wpc' = [wpc EXCEPT ![w] = "loop"]
    /\ raw_events' = [raw_events EXCEPT ![w] = <<>>]
    /\ task' = [task EXCEPT ![w] = [r \in RawIds |-> NoTask]]
    /\ UNCHANGED <<raw, session, enriched_event, shutdown_event, faults, engine_vars, label_vars, handed>>

\* process_batch: the TaskGroup exits once every task has returned
BatchDone(w) ==
    /\ wpc[w] = "gather"
    /\ \A r \in RawIds : InBatch(w, r) => task[w][r].pc = "done"
    /\ wpc' = [wpc EXCEPT ![w] = "loop"]
    /\ raw_events' = [raw_events EXCEPT ![w] = <<>>]
    /\ task' = [task EXCEPT ![w] = [r \in RawIds |-> NoTask]]
    /\ UNCHANGED <<raw, session, enriched_event, shutdown_event, faults, engine_vars, label_vars, handed>>

\* main: wait_for(shutdown_event.wait(), timeout=WAIT_TIME) returns or times out
WakeUp(w) ==
    /\ wpc[w] = "sleep"
    /\ wpc' = [wpc EXCEPT ![w] = "loop"]
    /\ UNCHANGED <<raw, session, enriched_event, shutdown_event, raw_events, task, faults, engine_vars, label_vars, handed>>

\* handle_shutdown: SIGINT/SIGTERM sets the flag
handle_shutdown(w) ==
    /\ ~shutdown_event[w]
    /\ wpc[w] \notin {"stopped", "crashed"}
    /\ shutdown_event' = [shutdown_event EXCEPT ![w] = TRUE]
    /\ UNCHANGED <<raw, session, enriched_event, wpc, raw_events, task, faults, engine_vars, label_vars, handed>>

\* Stop that also waits for the queue to be empty
StopAfterDrain(w) ==
    /\ wpc[w] = "loop"
    /\ shutdown_event[w]
    /\ \A r \in 1..Len(raw) : raw[r].status # PENDING
    /\ wpc' = [wpc EXCEPT ![w] = "stopped"]
    /\ UNCHANGED <<raw, session, enriched_event, shutdown_event, raw_events, task, faults, engine_vars, label_vars, handed>>

\* main: the while condition sees the flag and main returns
Stop(w) ==
    /\ wpc[w] = "loop"
    /\ shutdown_event[w]
    /\ wpc' = [wpc EXCEPT ![w] = "stopped"]
    /\ UNCHANGED <<raw, session, enriched_event, shutdown_event, raw_events, task, faults, engine_vars, label_vars, handed>>

\* ------------------------------------------------------------ per-event task

\* tasks of worker w that are inside "async with semaphore"
Running(w) == {r \in RawIds : task[w][r].pc \in InFlight}

\* TaskBegin without "async with semaphore"
TaskBeginNoSemaphore(w, r) ==
    /\ task[w][r].pc = "pending"
    /\ task' = [task EXCEPT ![w][r].pc =
                   IF raw[r].session_id = NULL THEN "except" ELSE "upsert"]
    /\ UNCHANGED <<raw, session, enriched_event, wpc, shutdown_event, raw_events, faults, engine_vars, label_vars, handed>>

\* TaskBegin without the check of event.session_id
TaskBeginNoCheck(w, r) ==
    /\ task[w][r].pc = "pending"
    /\ Cardinality(Running(w)) < MAX_CONCURRENCY
    /\ task' = [task EXCEPT ![w][r].pc = "upsert"]
    /\ UNCHANGED <<raw, session, enriched_event, wpc, shutdown_event, raw_events, faults, engine_vars, label_vars, handed>>

\* process_with_semaphore: acquire a permit and a connection; process_single_event
\* begins the transaction and raises ValueError if $session_id is missing
TaskBegin(w, r) ==
    /\ task[w][r].pc = "pending"
    /\ Cardinality(Running(w)) < MAX_CONCURRENCY
    /\ task' = [task EXCEPT ![w][r].pc =
                   IF raw[r].session_id = NULL THEN "except" ELSE "upsert"]
    /\ UNCHANGED <<raw, session, enriched_event, wpc, shutdown_event, raw_events, faults, engine_vars, label_vars, handed>>

\* the row get_or_create_session inserts
NewSession(event) ==
    [session_id |-> event.session_id,
     user_id |-> event.user_id,
     started_at |-> event.timestamp,
     last_activity_at |-> event.timestamp,
     event_count |-> 0,
     page_views_count |-> 0,
     clicks_count |-> 0,
     first_page |-> event.pathname,
     last_page |-> NULL]

\* fetch_session answering with the values of the INSERT instead of reading the row
fetch_session_inserted(s, own) == own

\* query_services.fetch_session inside the transaction that may have inserted
\* the row own: the committed row, or the transaction's uncommitted insert
fetch_session(s, own) ==
    IF s \in DOMAIN session THEN session[s] ELSE own

\* get_or_create_session whose INSERT does not wait for an uncommitted insert
\* of the same key
get_or_create_session_no_wait(w, r) ==
    LET s == raw[r].session_id IN
    /\ task[w][r].pc = "upsert"
    /\ task' = [task EXCEPT ![w][r] =
                   [pc |-> "enrich",
                    created |-> (s \notin DOMAIN session),
                    session |-> fetch_session(s, NewSession(raw[r]))]]
    /\ UNCHANGED <<raw, session, enriched_event, wpc, shutdown_event, raw_events, faults, engine_vars, label_vars, handed>>

\* persist_services.get_or_create_session: INSERT ... ON CONFLICT DO NOTHING
\* (waits for an uncommitted insert of the same key), then fetch_session
get_or_create_session(w, r) ==
    LET s == raw[r].session_id IN
    /\ task[w][r].pc = "upsert"
    /\ ~InsertHeldByOther(w, r, s)
    /\ task' = [task EXCEPT ![w][r] =
                   [pc |-> "enrich",
                    created |-> (s \notin DOMAIN session),
                    session |-> fetch_session(s, NewSession(raw[r]))]]
    /\ UNCHANGED <<raw, session, enriched_event, wpc, shutdown_event, raw_events, faults, engine_vars, label_vars, handed>>

\* WriteEvent with create_enriched_event run outside the transaction (autocommit)
WriteEventAutocommit(w, r) ==
    /\ task[w][r].pc = "enrich"
    /\ ~SessionLockedByOther(w, r, raw[r].session_id)
    /\ enriched_event' = Append(enriched_event, enrich_event(r, raw[r], task[w][r].session))
    /\ task' = [task EXCEPT ![w][r].pc = "markdone"]
    /\ UNCHANGED <<raw, session, wpc, shutdown_event, raw_events, faults, engine_vars, label_vars, handed>>

\* enrich_event, create_enriched_event and update_session_activity: the UPDATE
\* takes the session row lock, waiting for another transaction that holds it
WriteEvent(w, r) ==
    /\ task[w][r].pc = "enrich"
    /\ ~SessionLockedByOther(w, r, raw[r].session_id)
    /\ task' = [task EXCEPT ![w][r].pc = "markdone"]
    /\ UNCHANGED <<raw, session, enriched_event, wpc, shutdown_event, raw_events, faults, engine_vars, label_vars, handed>>

\* persist_services.update_raw_event_status: the columns the UPDATE sets
update_raw_event_status(row, status) ==
    [row EXCEPT !.status = status]

\* mark_event_as_done inside the per-event transaction: takes the raw row lock
mark_event_as_done(w, r) ==
    /\ task[w][r].pc = "markdone"
    /\ ~RawLockedByOther(w, r)
    /\ task' = [task EXCEPT ![w][r].pc = "commit"]
    /\ UNCHANGED <<raw, session, enriched_event, wpc, shutdown_event, raw_events, faults, engine_vars, label_vars, handed>>

\* update_session_activity that also writes first_page from the event
update_session_activity_first_page(row, event, enriched) ==
    LET base == [row EXCEPT !.last_activity_at = event.timestamp,
                            !.event_count = @ + 1,
                            !.first_page = event.pathname]
    IN  IF enriched.page_path \notin {NULL, ""}
        THEN [base EXCEPT !.page_views_count = @ + 1,
                          !.last_page = enriched.page_path]
        ELSE IF enriched.event_type = "click"
             THEN [base EXCEPT !.clicks_count = @ + 1]
             ELSE base

\* update_session_activity with the click branch as "if" instead of "elif"
update_session_activity_if(row, event, enriched) ==
    LET base == [row EXCEPT !.last_activity_at = event.timestamp,
                            !.event_count = @ + 1]
        paged == IF enriched.page_path \notin {NULL, ""}
                 THEN [base EXCEPT !.page_views_count = @ + 1,
                                   !.last_page = enriched.page_path]
                 ELSE base
    IN  IF enriched.event_type = "click"
        THEN [paged EXCEPT !.clicks_count = @ + 1]
        ELSE paged

\* persist_services.update_session_activity applied to the current row
update_session_activity(row, event, enriched) ==
    LET base == [row EXCEPT !.last_activity_at = event.timestamp,
                            !.event_count = @ + 1]
    IN  IF enriched.page_path \notin {NULL, ""}
        THEN [base EXCEPT !.page_views_count = @ + 1,
                          !.last_page = enriched.page_path]
        ELSE IF enriched.event_type = "click"
             THEN [base EXCEPT !.clicks_count = @ + 1]
             ELSE base

\* Commit whose UPDATE of the session writes absolute values computed from the
\* row the transaction read (event_count = session.event_count + 1 in Python)
CommitAbsolute(w, r) ==
    LET event == raw[r]
        s == event.session_id
        enriched == enrich_event(r, event, task[w][r].session)
    IN
    /\ task[w][r].pc = "commit"
    /\ session' = [t \in DOMAIN session \cup {s} |->
                       IF t = s THEN update_session_activity(task[w][r].session, event, enriched)
                       ELSE session[t]]
    /\ enriched_event' = Append(enriched_event, enriched)
    /\ raw' = [raw EXCEPT ![r] = update_raw_event_status(@, DONE)]
    /\ task' = [task EXCEPT ![w][r] = [NoTask EXCEPT !.pc = "done"]]
    /\ UNCHANGED <<wpc, shutdown_event, raw_events, faults, engine_vars, label_vars, handed>>

\* connection.begin() exits normally: the transaction of process_single_event commits
Commit(w, r) ==
    LET event == raw[r]
        s == event.session_id
        enriched == enrich_event(r, event, task[w][r].session)
        row == IF task[w][r].created THEN NewSession(event) ELSE session[s]
    IN
    /\ task[w][r].pc = "commit"
    /\ session' = [t \in DOMAIN session \cup {s} |->
                       IF t = s THEN update_session_activity(row, event, enriched)
                       ELSE session[t]]
    /\ enriched_event' = Append(enriched_event, enriched)
    /\ raw' = [raw EXCEPT ![r] = update_raw_event_status(@, DONE)]
    /\ task' = [task EXCEPT ![w][r] = [NoTask EXCEPT !.pc = "done"]]
    /\ UNCHANGED <<wpc, shutdown_event, raw_events, faults, engine_vars, label_vars, handed>>

\* a statement of process_single_event (or its commit) raises: the transaction
\* is rolled back and process_with_semaphore enters its except branch
Raise(w, r) ==
    /\ task[w][r].pc \in InTx
    /\ faults < MaxFaults
    /\ faults' = faults + 1
    /\ task' = [task EXCEPT ![w][r] = [NoTask EXCEPT !.pc = "except"]]
    /\ UNCHANGED <<raw, session, enriched_event, wpc, shutdown_event, raw_events, engine_vars, label_vars, handed>>

\* mark_event_as_failed whose UPDATE is never committed
mark_event_as_failed_uncommitted(w, r) ==
    /\ task[w][r].pc = "except"
    /\ ~RawLockedByOther(w, r)
    /\ task' = [task EXCEPT ![w][r] = [NoTask EXCEPT !.pc = "done"]]
    /\ UNCHANGED <<raw, session, enriched_event, wpc, shutdown_event, raw_events, faults, engine_vars, label_vars, handed>>

\* except branch: mark_event_as_failed in a transaction of its own, committed
mark_event_as_failed(w, r) ==
    /\ task[w][r].pc = "except"
    /\ ~RawLockedByOther(w, r)
    /\ raw' = [raw EXCEPT ![r] = update_raw_event_status(@, FAILED)]
    /\ task' = [task EXCEPT ![w][r] = [NoTask EXCEPT !.pc = "done"]]
    /\ UNCHANGED <<session, enriched_event, wpc, shutdown_event, raw_events, faults, engine_vars, label_vars, handed>>

\* RaiseInExcept in which the except branch of a cancelled task runs too and
\* marks its event FAILED
RaiseInExceptMarksCancelled(w, r) ==
    /\ task[w][r].pc = "except"
    /\ faults < MaxFaults
    /\ faults' = faults + 1
    /\ task' = [task EXCEPT ![w] =
                   [r2 \in RawIds |->
                       IF r2 = r THEN [NoTask EXCEPT !.pc = "raised"]
                       ELSE IF task[w][r2].pc \in InFlight \cup {"pending"}
                            THEN [NoTask EXCEPT !.pc = "cancelled"]
                            ELSE task[w][r2]]]
    /\ raw' = [r2 \in 1..Len(raw) |->
                   IF r2 # r /\ task[w][r2].pc \in InFlight
                   THEN update_raw_event_status(raw[r2], FAILED)
                   ELSE raw[r2]]
    /\ wpc' = [wpc EXCEPT ![w] = "crashed"]
    /\ UNCHANGED <<session, enriched_event, shutdown_event, raw_events, engine_vars, label_vars, handed>>

\* except branch: the mark-FAILED transaction raises; the exception leaves
\* process_with_semaphore, the TaskGroup cancels the other tasks of the batch
\* and process_batch and main raise
RaiseInExcept(w, r) ==
    /\ task[w][r].pc = "except"
    /\ faults < MaxFaults
    /\ faults' = faults + 1
    /\ task' = [task EXCEPT ![w] =
                   [r2 \in RawIds |->
                       IF r2 = r THEN [NoTask EXCEPT !.pc = "raised"]
                       ELSE IF task[w][r2].pc \in InFlight \cup {"pending"}
                            THEN [NoTask EXCEPT !.pc = "cancelled"]
                            ELSE task[w][r2]]]
    /\ wpc' = [wpc EXCEPT ![w] = "crashed"]
    /\ UNCHANGED <<raw, session, enriched_event, shutdown_event, raw_events, engine_vars, label_vars, handed>>

\* ---------------------------------------------------------- specification

Next ==
    \/ \E event \in PostHogEvent : Len(raw) < MaxRaw /\ insert_raw_event(event)
    \/ \E w \in Workers : ClaimBatch(w)
    \/ \E w \in Workers : ClaimCommit(w)
    \/ \E w \in Workers : BatchDone(w)
    \/ \E w \in Workers : WakeUp(w)
    \/ \E w \in Workers, r \in RawIds : TaskBegin(w, r)
    \/ \E w \in Workers, r \in RawIds : get_or_create_session(w, r)
    \/ \E w \in Workers, r \in RawIds : WriteEvent(w, r)
    \/ \E w \in Workers, r \in RawIds : mark_event_as_done(w, r)
    \/ \E w \in Workers, r \in RawIds : Commit(w, r)
    \/ \E w \in Workers, r \in RawIds : Raise(w, r)
    \/ \E w \in Workers, r \in RawIds : mark_event_as_failed(w, r)
    \/ \E w \in Workers, r \in RawIds : RaiseInExcept(w, r)

Spec == Init /\ [][Next]_vars

\* The worker with no exception injected and no signal delivered, its loop
\* and its tasks scheduled fairly (the asyncio loop runs every ready task and
\* the database completes every statement that is not waiting for a lock).
\* The events of this specification: a page view with and one without
\* $session_id (the fields that decide which path a task takes).
LiveEvents ==
    {e \in PostHogEvent : e.event_name = "$pageview" /\ e.user_id = "u1" /\ e.timestamp = 1}

NextLive ==
    \/ \E event \in LiveEvents : Len(raw) < MaxRaw /\ insert_raw_event(event)
    \/ \E w \in Workers : ClaimBatch(w)
    \/ \E w \in Workers : ClaimCommit(w)
    \/ \E w \in Workers : BatchDone(w)
    \/ \E w \in Workers : WakeUp(w)
    \/ \E w \in Workers, r \in RawIds : TaskBegin(w, r)
    \/ \E w \in Workers, r \in RawIds : get_or_create_session(w, r)
    \/ \E w \in Workers, r \in RawIds : WriteEvent(w, r)
    \/ \E w \in Workers, r \in RawIds : mark_event_as_done(w, r)
    \/ \E w \in Workers, r \in RawIds : Commit(w, r)
    \/ \E w \in Workers, r \in RawIds : mark_event_as_failed(w, r)

Fairness ==
    /\ \A w \in Workers :
          /\ WF_vars(ClaimBatch(w))
          /\ WF_vars(ClaimCommit(w))
          /\ WF_vars(BatchDone(w))
          /\ WF_vars(WakeUp(w))
    /\ \A w \in Workers : \A r \in RawIds :
          /\ WF_vars(TaskBegin(w, r))
          /\ WF_vars(get_or_create_session(w, r))
          /\ WF_vars(WriteEvent(w, r))
          /\ WF_vars(mark_event_as_done(w, r))
          /\ WF_vars(Commit(w, r))
          /\ WF_vars(mark_event_as_failed(w, r))

LiveSpec == Init /\ [][NextLive]_vars /\ Fairness

\* One worker process running alone (the deployment of one ingestion worker):
\* no second claimer, so every raw row is in at most one batch, and the tasks
\* of a batch are the only concurrent transactions.  The events of one user.
OneEvents == {e \in PostHogEvent : e.user_id = "u1"}

TheWorker == 1

NextOne ==
    \/ \E event \in OneEvents : Len(raw) < MaxRawOne /\ insert_raw_event(event)
    \/ ClaimBatch(TheWorker)
    \/ ClaimCommit(TheWorker)
    \/ BatchDone(TheWorker)
    \/ WakeUp(TheWorker)
    \/ \E r \in RawIds : TaskBegin(TheWorker, r)
    \/ \E r \in RawIds : get_or_create_session(TheWorker, r)
    \/ \E r \in RawIds : WriteEvent(TheWorker, r)
    \/ \E r \in RawIds : mark_event_as_done(TheWorker, r)
    \/ \E r \in RawIds : Commit(TheWorker, r)
    \/ \E r \in RawIds : Raise(TheWorker, r)
    \/ \E r \in RawIds : mark_event_as_failed(TheWorker, r)
    \/ \E r \in RawIds : RaiseInExcept(TheWorker, r)

OneWorkerSpec == Init /\ [][NextOne]_vars

\* The worker with signals.  handle_shutdown runs whenever the signal arrives,
\* also between the while condition of main and the claim of process_batch, so
\* here the two are separate steps: EnterLoop is the while condition (wpc
\* "batch" = inside the loop body, process_batch not yet at its SELECT) and
\* ProcessBatchClaim the claim.  No exception is injected; scheduling is fair;
\* signals arrive at any time or never.

\* EnterLoop that does not read the flag (while True)
EnterLoopNoCheck(w) ==
    /\ wpc[w] = "loop"
    /\ wpc' = [wpc EXCEPT ![w] = "batch"]
    /\ UNCHANGED <<raw, session, enriched_event, shutdown_event, raw_events, task, faults, engine_vars, label_vars, handed>>

\* main: while not shutdown_event.is_set() is true, the loop body is entered
EnterLoop(w) ==
    /\ wpc[w] = "loop"
    /\ ~shutdown_event[w]
    /\ wpc' = [wpc EXCEPT ![w] = "batch"]
    /\ UNCHANGED <<raw, session, enriched_event, shutdown_event, raw_events, task, faults, engine_vars, label_vars, handed>>

\* process_batch: opens the claim transaction and selects the batch
ProcessBatchClaim(w) ==
    /\ wpc[w] = "batch"
    /\ raw_events' = [raw_events EXCEPT ![w] = fetch_events_for_processing(BATCH_SIZE)]
    /\ wpc' = [wpc EXCEPT ![w] = "claimed"]
    /\ UNCHANGED <<raw, session, enriched_event, shutdown_event, task, faults, engine_vars, label_vars, handed>>

NextShutdown ==
    \/ \E event \in LiveEvents : Len(raw) < MaxRaw /\ insert_raw_event(event)
    \/ \E w \in Workers : handle_shutdown(w)
    \/ \E w \in Workers : EnterLoop(w)
    \/ \E w \in Workers : ProcessBatchClaim(w)
    \/ \E w \in Workers : ClaimCommit(w)
    \/ \E w \in Workers : BatchDone(w)
    \/ \E w \in Workers : WakeUp(w)
    \/ \E w \in Workers : Stop(w)
    \/ \E w \in Workers, r \in RawIds : TaskBegin(w, r)
    \/ \E w \in Workers, r \in RawIds : get_or_create_session(w, r)
    \/ \E w \in Workers, r \in RawIds : WriteEvent(w, r)
    \/ \E w \in Workers, r \in RawIds : mark_event_as_done(w, r)
    \/ \E w \in Workers, r \in RawIds : Commit(w, r)
    \/ \E w \in Workers, r \in RawIds : mark_event_as_failed(w, r)

FairnessShutdown ==
    /\ \A w \in Workers :
          /\ WF_vars(EnterLoop(w))
          /\ WF_vars(ProcessBatchClaim(w))
          /\ WF_vars(ClaimCommit(w))
          /\ WF_vars(BatchDone(w))
          /\ WF_vars(WakeUp(w))
          /\ WF_vars(Stop(w))
    /\ \A w \in Workers : \A r \in RawIds :
          /\ WF_vars(TaskBegin(w, r))
          /\ WF_vars(get_or_create_session(w, r))
          /\ WF_vars(WriteEvent(w, r))
          /\ WF_vars(mark_event_as_done(w, r))
          /\ WF_vars(Commit(w, r))
          /\ WF_vars(mark_event_as_failed(w, r))

ShutdownSpec == Init /\ [][NextShutdown]_vars /\ FairnessShutdown

\* ---------------------------------------------------------- pattern engine

\* an optional value (T | None): None is the empty tuple, a value v is <<v>>
None == <<>>
Some(v) == <<v>>

\* Python truthiness of an optional number: None and 0 are false
Truthy(o) == o # None /\ o[1] # 0

\* str.lower() on the strings of the model
lower(s) ==
    CASE s = "Checkout" -> "checkout"
      [] s = "COMP" -> "comp"
      [] OTHER -> s

\* "sub in s" on the lower-case strings of the model
contains(s, sub) ==
    \/ sub = ""
    \/ sub = s
    \/ <<s, sub>> \in {<<"completed", "comp">>, <<"checkout", "check">>}

\* str.startswith on the page paths of the model
startswith(s, prefix) ==
    \/ prefix = ""
    \/ prefix = s
    \/ prefix = "/" /\ s \in {"/a", "/b"}

\* EventFilter.apply: the condition an event must meet to be kept
EventFilterKeeps(f, e) ==
    /\ f.event_type # None => e.event_type = f.event_type[1]
    /\ f.action_type # None => e.action_type = f.action_type[1]
    /\ f.page_path_prefix # None =>
          startswith(IF e.page_path = None THEN "" ELSE e.page_path[1], f.page_path_prefix[1])
    /\ f.page_path_equals # None => e.page_path = f.page_path_equals
    /\ f.semantic_contains # None =>
          contains(lower(e.semantic_label), lower(f.semantic_contains[1]))

\* EventFilter.apply: a new list of the events kept, in the order of the input
apply(f, evs) == SelectSeq(evs, LAMBDA e : EventFilterKeeps(f, e))

\* SessionContext.duration_seconds: None if duration is None or zero
duration_seconds(sc) == IF Truthy(sc.duration) THEN sc.duration ELSE None

\* SessionFilter.matches
SessionFilter_matches(f, sc) ==
    LET d == duration_seconds(sc) IN
    /\ ~(Truthy(f.min_duration_seconds)
            /\ (IF d = None THEN 0 ELSE d[1]) < f.min_duration_seconds[1])
    /\ ~(Truthy(f.max_duration_seconds)
            /\ (d = None \/ d[1] > f.max_duration_seconds[1]))
    /\ ~(Truthy(f.min_events) /\ sc.event_count < f.min_events[1])
    /\ ~(Truthy(f.max_events) /\ sc.event_count > f.max_events[1])
    /\ ~(Truthy(f.min_page_views) /\ sc.page_views_count < f.min_page_views[1])
    /\ ~(Truthy(f.max_page_views) /\ sc.page_views_count > f.max_page_views[1])

\* the sort key of PatternRule.matches: e.sequence_number or 0
SortKey(e) == IF e.sequence_number = None THEN 0 ELSE e.sequence_number[1]

\* sorted(events, key=...): a new list, stable (equal keys keep input order)
RECURSIVE sorted(_)
sorted(evs) ==
    IF evs = <<>> THEN <<>>
    ELSE LET front == sorted(SubSeq(evs, 1, Len(evs) - 1))
             e == evs[Len(evs)]
             k == Cardinality({i \in 1..Len(front) : SortKey(front[i]) <= SortKey(e)})
         IN  SubSeq(front, 1, k) \o <<e>> \o SubSeq(front, k + 1, Len(front))

Abs(x) == IF x < 0 THEN 0 - x ELSE x

\* PatternRule._filter_by_time_window after the first i events of the loop
RECURSIVE filter_by_time_window_upto(_, _, _)
filter_by_time_window_upto(evs, window, i) ==
    IF i = 0 THEN <<>>
    ELSE IF i = 1 THEN <<evs[1]>>
    ELSE LET result == filter_by_time_window_upto(evs, window, i - 1) IN
         IF \E j \in 1..Len(result) : Abs(evs[i].timestamp - result[j].timestamp) <= window
         THEN Append(result, evs[i])
         ELSE result

\* PatternRule._filter_by_time_window
filter_by_time_window(evs, window) == filter_by_time_window_upto(evs, window, Len(evs))

\* matches with the negative window open at its end: t <= n < t + w
matches_open_window(rule, evs, sc) ==
    IF rule.session_filter # None /\ ~SessionFilter_matches(rule.session_filter[1], sc)
    THEN "False"
    ELSE IF rule.filter = None THEN "True"
    ELSE LET events_sorted == sorted(evs)
             filtered == apply(rule.filter[1], events_sorted)
             positives == IF Truthy(rule.time_window)
                          THEN filter_by_time_window(filtered, rule.time_window[1])
                          ELSE filtered
         IN  IF Len(positives) < rule.min_count THEN "False"
             ELSE IF rule.negative_filter = None THEN "True"
             ELSE LET negative_candidates == apply(rule.negative_filter[1], events_sorted) IN
                  IF rule.negative_time_window = None
                  THEN (IF Len(negative_candidates) = 0 THEN "True" ELSE "False")
                  ELSE IF positives = <<>> THEN "IndexError"
                  ELSE LET last_pos_time == positives[Len(positives)].timestamp IN
                       IF \E i \in 1..Len(negative_candidates) :
                              /\ last_pos_time <= negative_candidates[i].timestamp
                              /\ negative_candidates[i].timestamp
                                    < last_pos_time + rule.negative_time_window[1]
                       THEN "False"
                       ELSE "True"

\* matches in which, without negative window, only the negatives from the
\* last positive on block the match
matches_negatives_after(rule, evs, sc) ==
    IF rule.session_filter # None /\ ~SessionFilter_matches(rule.session_filter[1], sc)
    THEN "False"
    ELSE IF rule.filter = None THEN "True"
    ELSE LET events_sorted == sorted(evs)
             filtered == apply(rule.filter[1], events_sorted)
             positives == IF Truthy(rule.time_window)
                          THEN filter_by_time_window(filtered, rule.time_window[1])
                          ELSE filtered
         IN  IF Len(positives) < rule.min_count THEN "False"
             ELSE IF rule.negative_filter = None THEN "True"
             ELSE LET negative_candidates == apply(rule.negative_filter[1], events_sorted) IN
                  IF rule.negative_time_window = None
                  THEN (IF positives = <<>>
                           \/ \A i \in 1..Len(negative_candidates) :
                                 negative_candidates[i].timestamp
                                     < positives[Len(positives)].timestamp
                        THEN "True" ELSE "False")
                  ELSE IF positives = <<>> THEN "IndexError"
                  ELSE LET last_pos_time == positives[Len(positives)].timestamp IN
                       IF \E i \in 1..Len(negative_candidates) :
                              /\ last_pos_time <= negative_candidates[i].timestamp
                              /\ negative_candidates[i].timestamp
                                    <= last_pos_time + rule.negative_time_window[1]
                       THEN "False"
                       ELSE "True"

\* PatternRule.matches: "True", "False", or "IndexError" where positives[-1]
\* is evaluated on an empty list
matches(rule, evs, sc) ==
    IF rule.session_filter # None /\ ~SessionFilter_matches(rule.session_filter[1], sc)
    THEN "False"
    ELSE IF rule.filter = None THEN "True"
    ELSE LET events_sorted == sorted(evs)
             filtered == apply(rule.filter[1], events_sorted)
             positives == IF Truthy(rule.time_window)
                          THEN filter_by_time_window(filtered, rule.time_window[1])
                          ELSE filtered
         IN  IF Len(positives) < rule.min_count THEN "False"
             ELSE IF rule.negative_filter = None THEN "True"
             ELSE LET negative_candidates == apply(rule.negative_filter[1], events_sorted) IN
                  IF rule.negative_time_window = None
                  THEN (IF Len(negative_candidates) = 0 THEN "True" ELSE "False")
                  ELSE IF positives = <<>> THEN "IndexError"
                  ELSE LET last_pos_time == positives[Len(positives)].timestamp IN
                       IF \E i \in 1..Len(negative_candidates) :
                              /\ last_pos_time <= negative_candidates[i].timestamp
                              /\ negative_candidates[i].timestamp
                                    <= last_pos_time + rule.negative_time_window[1]
                       THEN "False"
                       ELSE "True"

\* PatternRule.to_pattern
to_pattern(rule) ==
    [code |-> rule.code, description |-> rule.description, severity |-> rule.severity]

\* detect that reports a code once (patterns kept in a mapping by code)
detect_unique_codes(rs, evs, sc) ==
    IF \E i \in 1..Len(rs) : matches(rs[i], evs, sc) = "IndexError"
    THEN [exception |-> "IndexError", patterns |-> <<>>]
    ELSE LET idx == [i \in 1..Len(rs) |-> i]
             hits == SelectSeq(idx, LAMBDA i :
                        /\ matches(rs[i], evs, sc) = "True"
                        /\ ~\E j \in 1..(i - 1) :
                              rs[j].code = rs[i].code /\ matches(rs[j], evs, sc) = "True")
         IN  [exception |-> "none",
              patterns |-> [i \in 1..Len(hits) |-> to_pattern(rs[hits[i]])]]

\* PatternEngine.detect: what the call returns, or the exception a rule raises
detect(rs, evs, sc) ==
    IF \E i \in 1..Len(rs) : matches(rs[i], evs, sc) = "IndexError"
    THEN [exception |-> "IndexError", patterns |-> <<>>]
    ELSE LET hits == SelectSeq(rs, LAMBDA rule : matches(rule, evs, sc) = "True")
         IN  [exception |-> "none",
              patterns |-> [i \in 1..Len(hits) |-> to_pattern(hits[i])]]

\* the sequences over S of length at most n
SeqsUpTo(S, n) == UNION {[1..k -> S] : k \in 0..n}

\* enriched events of a session as the API reads them
EnrichedEvents ==
    {[sequence_number |-> Some(1), timestamp |-> 0, event_type |-> "pageview",
      action_type |-> "view", page_path |-> Some("/a"), semantic_label |-> "Checkout"],
     [sequence_number |-> Some(2), timestamp |-> 1, event_type |-> "click",
      action_type |-> "click", page_path |-> Some("/b"), semantic_label |-> "completed"],
     [sequence_number |-> None, timestamp |-> 2, event_type |-> "click",
      action_type |-> "rage_click", page_path |-> None, semantic_label |-> "completed"]}

\* an active session (no duration) and an ended one of 20 seconds
SessionContexts ==
    {[duration |-> d, event_count |-> 2, page_views_count |-> 1] : d \in {None, Some(20)}}

NoEventFilter ==
    [event_type |-> None, action_type |-> None, page_path_prefix |-> None,
     page_path_equals |-> None, semantic_contains |-> None]

NoSessionFilter ==
    [min_duration_seconds |-> None, max_duration_seconds |-> None, min_events |-> None,
     max_events |-> None, min_page_views |-> None, max_page_views |-> None]

\* a PatternRule with the defaults of the class
PatternRule(code, description, severity) ==
    [code |-> code, description |-> description, severity |-> severity,
     filter |-> None, min_count |-> 1, negative_filter |-> None,
     negative_time_window |-> None, time_window |-> None, session_filter |-> None]

\* the rules engines are built from: two rules with one code, a rule on the
\* action type, one that cannot match, a session-only rule, a rule with time
\* window and negative window, and a rule whose min_count is 0
PatternRules ==
    {[PatternRule("pageview_pattern", "Has pageview", "LOW")
        EXCEPT !.filter = Some([NoEventFilter EXCEPT !.event_type = Some("pageview")])],
     [PatternRule("pageview_pattern", "Visited /a", "MEDIUM")
        EXCEPT !.filter = Some([NoEventFilter EXCEPT !.page_path_prefix = Some("/a")])],
     [PatternRule("rage_click_pattern", "Has rage click", "HIGH")
        EXCEPT !.filter = Some([NoEventFilter EXCEPT !.action_type = Some("rage_click")])],
     [PatternRule("impossible_pattern", "Impossible to match", "LOW")
        EXCEPT !.filter = Some([NoEventFilter EXCEPT !.event_type = Some("navigation")]),
               !.min_count = 10],
     [PatternRule("quick_bounce", "Quick bounce", "LOW")
        EXCEPT !.session_filter = Some([NoSessionFilter EXCEPT
                                          !.max_duration_seconds = Some(30),
                                          !.max_events = Some(3)])],
     [PatternRule("checkout_abandoned", "Checkout abandoned", "HIGH")
        EXCEPT !.filter = Some([NoEventFilter EXCEPT !.semantic_contains = Some("checkout")]),
               !.time_window = Some(1),
               !.negative_filter = Some([NoEventFilter EXCEPT !.semantic_contains = Some("COMP")]),
               !.negative_time_window = Some(1)],
     [PatternRule("no_navigation", "No navigation", "LOW")
        EXCEPT !.filter = Some([NoEventFilter EXCEPT !.event_type = Some("navigation")]),
               !.min_count = 0,
               !.negative_filter = Some([NoEventFilter EXCEPT !.page_path_equals = Some("/b")]),
               !.negative_time_window = Some(1)]}

\* PatternEngine(rules) constructed; the caller holds an event list and a context
EngineInit ==
    /\ WorkerInit
    /\ LabelIdle
    /\ rules \in SeqsUpTo(PatternRules, MaxRules)
    /\ events \in SeqsUpTo(EnrichedEvents, MaxEvents)
    /\ ctx \in SessionContexts
    /\ results = <<>>

\* Detect with events.sort(key=...) in place of sorted(events, key=...)
DetectSortInPlace ==
    /\ Len(results) < MaxCalls
    /\ results' = Append(results, detect(rules, events, ctx))
    /\ events' = sorted(events)
    /\ UNCHANGED <<rules, ctx>>
    /\ UNCHANGED <<raw, session, enriched_event, wpc, shutdown_event, raw_events, task, faults, handed>>
    /\ UNCHANGED label_vars

\* a call of PatternEngine.detect(events, session): it builds new lists only
\* and assigns to no attribute of the engine, the rules, the events or the context
Detect ==
    /\ Len(results) < MaxCalls
    /\ results' = Append(results, detect(rules, events, ctx))
    /\ UNCHANGED <<rules, events, ctx>>
    /\ UNCHANGED <<raw, session, enriched_event, wpc, shutdown_event, raw_events, task, faults, handed>>
    /\ UNCHANGED label_vars

EngineNext == Detect

EngineSpec == EngineInit /\ [][EngineNext]_vars

\* Events for the rules with windows: "Checkout" events (positives of the
\* rules below) whose sequence order differs from their timestamp order, and
\* "completed" events (negatives) at the instants 0..3, one without
\* sequence_number.
WindowEvents ==
    {[sequence_number |-> Some(q[1]), timestamp |-> q[2], event_type |-> "pageview",
      action_type |-> "view", page_path |-> Some("/a"), semantic_label |-> "Checkout"] :
        q \in {<<1, 0>>, <<1, 2>>, <<2, 0>>, <<2, 1>>}}
    \cup
    {[sequence_number |-> Some(3), timestamp |-> t, event_type |-> "click",
      action_type |-> "click", page_path |-> Some("/b"), semantic_label |-> "completed"] :
        t \in 0..3}
    \cup
    {[sequence_number |-> None, timestamp |-> 1, event_type |-> "click",
      action_type |-> "click", page_path |-> Some("/b"), semantic_label |-> "completed"]}

\* the windows a rule is given: none, timedelta(0), one time unit
Windows == {None, Some(0), Some(1)}

\* rules on "checkout" events with every combination of min_count, time
\* window, negative filter and negative window
WindowRules ==
    {[PatternRule("checkout_abandoned", "Checkout abandoned", "HIGH")
        EXCEPT !.filter = Some([NoEventFilter EXCEPT !.semantic_contains = Some("checkout")]),
               !.min_count = m,
               !.time_window = tw,
               !.negative_filter = nf[1],
               !.negative_time_window = nf[2]] :
        m \in 0..2, tw \in Windows,
        nf \in {<<None, None>>}
               \cup {<<Some([NoEventFilter EXCEPT !.semantic_contains = Some("COMP")]), w>> :
                        w \in Windows}}

\* an engine of one rule with windows and the events of an ended session
WindowInit ==
    /\ WorkerInit
    /\ LabelIdle
    /\ rules \in {<<rule>> : rule \in WindowRules}
    /\ events \in SeqsUpTo(WindowEvents, MaxWindowEvents)
    /\ ctx = [duration |-> Some(20), event_count |-> 2, page_views_count |-> 1]
    /\ results = <<>>

WindowSpec == WindowInit /\ [][EngineNext]_vars

\* the values a bound of a SessionFilter is given: unset, 0, and a positive one
Bounds(b) == {None, Some(0), Some(b)}

\* session-only rules with every combination of bounds
SessionRules ==
    {[PatternRule("session_shape", "Session shape", "LOW")
        EXCEPT !.session_filter =
            Some([min_duration_seconds |-> b[1], max_duration_seconds |-> b[2],
                  min_events |-> b[3], max_events |-> b[4],
                  min_page_views |-> b[5], max_page_views |-> b[6]])] :
        b \in Bounds(10) \X Bounds(30) \X Bounds(2) \X Bounds(3) \X Bounds(1) \X Bounds(2)}

\* active sessions (no duration), sessions that ended at once (timedelta(0))
\* and sessions of 20 seconds, empty or not
ShapeContexts ==
    {[duration |-> d, event_count |-> n, page_views_count |-> v] :
        d \in {None, Some(0), Some(20)}, n \in {0, 2, 4}, v \in {0, 1, 3}}

\* an engine of one session-only rule
SessionFilterInit ==
    /\ WorkerInit
    /\ LabelIdle
    /\ rules \in {<<rule>> : rule \in SessionRules}
    /\ events = <<>>
    /\ ctx \in ShapeContexts
    /\ results = <<>>

SessionFilterSpec == SessionFilterInit /\ [][EngineNext]_vars

\* ------------------------------------------------------- serial processing
\* One worker whose tasks run one at a time: a task enters the semaphore only
\* when no other task is inside, so no two per-event transactions overlap.
NextSerial ==
    \/ \E event \in OneEvents : Len(raw) < MaxRawOne /\ insert_raw_event(event)
    \/ ClaimBatch(TheWorker)
    \/ ClaimCommit(TheWorker)
    \/ BatchDone(TheWorker)
    \/ WakeUp(TheWorker)
    \/ \E r \in RawIds : Running(TheWorker) = {} /\ TaskBegin(TheWorker, r)
    \/ \E r \in RawIds : get_or_create_session(TheWorker, r)
    \/ \E r \in RawIds : WriteEvent(TheWorker, r)
    \/ \E r \in RawIds : mark_event_as_done(TheWorker, r)
    \/ \E r \in RawIds : Commit(TheWorker, r)
    \/ \E r \in RawIds : Raise(TheWorker, r)
    \/ \E r \in RawIds : mark_event_as_failed(TheWorker, r)
    \/ \E r \in RawIds : RaiseInExcept(TheWorker, r)

SerialSpec == Init /\ [][NextSerial]_vars

\* ---------------------------------------------------------------- stuck task
\* An await of process_single_event never returns (the pool hands out no
\* connection, the server never answers the first statement): the task stays
\* inside the semaphore, before any write of its transaction.
Hang(w, r) ==
    /\ task[w][r].pc = "upsert"
    /\ task' = [task EXCEPT ![w][r].pc = "stuck"]
    /\ UNCHANGED <<raw, session, enriched_event, wpc, shutdown_event, raw_events, faults, engine_vars, label_vars, handed>>

\* one worker, no exceptions and no signals; any task may get stuck
NextStuck ==
    \/ \E event \in LiveEvents : Len(raw) < MaxRaw /\ insert_raw_event(event)
    \/ ClaimBatch(TheWorker)
    \/ ClaimCommit(TheWorker)
    \/ BatchDone(TheWorker)
    \/ WakeUp(TheWorker)
    \/ \E r \in RawIds : TaskBegin(TheWorker, r)
    \/ \E r \in RawIds : get_or_create_session(TheWorker, r)
    \/ \E r \in RawIds : WriteEvent(TheWorker, r)
    \/ \E r \in RawIds : mark_event_as_done(TheWorker, r)
    \/ \E r \in RawIds : Commit(TheWorker, r)
    \/ \E r \in RawIds : mark_event_as_failed(TheWorker, r)
    \/ \E r \in RawIds : Hang(TheWorker, r)

\* the event loop runs every step of the worker that can run; nothing makes a
\* task hang, and nothing obliges the ingest API to insert
FairnessStuck ==
    /\ WF_vars(ClaimBatch(TheWorker))
    /\ WF_vars(ClaimCommit(TheWorker))
    /\ WF_vars(BatchDone(TheWorker))
    /\ WF_vars(WakeUp(TheWorker))
    /\ \A r \in RawIds :
          /\ WF_vars(TaskBegin(TheWorker, r))
          /\ WF_vars(get_or_create_session(TheWorker, r))
          /\ WF_vars(WriteEvent(TheWorker, r))
          /\ WF_vars(mark_event_as_done(TheWorker, r))
          /\ WF_vars(Commit(TheWorker, r))
          /\ WF_vars(mark_event_as_failed(TheWorker, r))

StuckSpec == Init /\ [][NextStuck]_vars /\ FairnessStuck

\* ------------------------------------------------------------ label builder
\* A Python str is the sequence of its characters.

LowerCase == <<"a", "b", "c", "d", "e", "f", "g", "h", "i", "j", "k", "l", "m", "n", "o", "p", "q", "r", "s", "t", "u", "v", "w", "x", "y", "z">>
UpperCase == <<"A", "B", "C", "D", "E", "F", "G", "H", "I", "J", "K", "L", "M", "N", "O", "P", "Q", "R", "S", "T", "U", "V", "W", "X", "Y", "Z">>

\* str.upper and str.lower on one character
upper_char(c) ==
    IF \E i \in 1..Len(LowerCase) : LowerCase[i] = c
    THEN UpperCase[CHOOSE i \in 1..Len(LowerCase) : LowerCase[i] = c]
    ELSE c

lower_char(c) ==
    IF \E i \in 1..Len(UpperCase) : UpperCase[i] = c
    THEN LowerCase[CHOOSE i \in 1..Len(UpperCase) : UpperCase[i] = c]
    ELSE c

lower_str(text) == [i \in 1..Len(text) |-> lower_char(text[i])]

\* the slice text[:k]: the first k characters, or all but the last -k when k < 0
slice_to(text, k) ==
    IF k >= 0
    THEN SubSeq(text, 1, Min(k, Len(text)))
    ELSE SubSeq(text, 1, IF Len(text) + k > 0 THEN Len(text) + k ELSE 0)

\* utils.truncate_text
truncate_text(text, max_length) ==
    IF Len(text) <= max_length THEN text
    ELSE slice_to(text, max_length - 3) \o <<".", ".", ".">>

\* utils.capitalize_first_letter
capitalize_first_letter(text) ==
    IF text = <<>> THEN text
    ELSE <<upper_char(text[1])>> \o SubSeq(text, 2, Len(text))

\* utils.humanize_snake_case_string
humanize_snake_case_string(text) ==
    lower_str([i \in 1..Len(text) |-> IF text[i] = "_" THEN " " ELSE text[i]])

\* a str | None that is truthy: not None and not empty
TruthyStr(o) == o # None /\ o[1] # <<>>

\* DEFAULT_CUSTOM_EVENT_TEMPLATES: name -> prefix {key} suffix
DEFAULT_CUSTOM_EVENT_TEMPLATES ==
    {[name |-> <<"p", "r", "o", "d", "u", "c", "t", "_", "c", "l", "i", "c", "k", "e", "d">>, prefix |-> <<"S", "e", "l", "e", "c", "t", "e", "d", " ", "p", "r", "o", "d", "u", "c", "t", ":", " ">>,
      key |-> Some("product_name"), suffix |-> <<>>],
     [name |-> <<"p", "l", "a", "n", "_", "u", "p", "g", "r", "a", "d", "e", "_", "s", "t", "a", "r", "t", "e", "d">>, prefix |-> <<"S", "t", "a", "r", "t", "e", "d", " ", "p", "l", "a", "n", " ", "u", "p", "g", "r", "a", "d", "e">>,
      key |-> None, suffix |-> <<>>],
     [name |-> <<"p", "l", "a", "n", "_", "u", "p", "g", "r", "a", "d", "e", "_", "c", "o", "m", "p", "l", "e", "t", "e", "d">>, prefix |-> <<"C", "o", "m", "p", "l", "e", "t", "e", "d", " ", "p", "l", "a", "n", " ", "u", "p", "g", "r", "a", "d", "e", " ", "t", "o", " ">>,
      key |-> Some("plan_name"), suffix |-> <<>>],
     [name |-> <<"f", "o", "r", "m", "_", "s", "u", "b", "m", "i", "t", "t", "e", "d">>, prefix |-> <<"S", "u", "b", "m", "i", "t", "t", "e", "d", " ">>,
      key |-> Some("form_name"), suffix |-> <<" ", "f", "o", "r", "m">>]}

\* DEFAULT_ELEMENT_ENRICHMENT_RULES: attribute -> prefix {base_type} suffix
DEFAULT_ELEMENT_ENRICHMENT_RULES ==
    {[attr |-> "nav", prefix |-> <<"n", "a", "v", "i", "g", "a", "t", "i", "o", "n", " ">>, base_type |-> TRUE, suffix |-> <<>>],
     [attr |-> "product-id", prefix |-> <<"p", "r", "o", "d", "u", "c", "t", " ", "c", "a", "r", "d">>, base_type |-> FALSE, suffix |-> <<>>],
     [attr |-> "product-name", prefix |-> <<"p", "r", "o", "d", "u", "c", "t", " ", "c", "a", "r", "d">>, base_type |-> FALSE, suffix |-> <<>>],
     [attr |-> "form-id", prefix |-> <<>>, base_type |-> TRUE, suffix |-> <<" ", "i", "n", " ", "f", "o", "r", "m">>]}

\* element_info.element_type or "element"
element_type_or_default(element_info) ==
    IF TruthyStr(element_info.element_type) THEN element_info.element_type[1]
    ELSE <<"e", "l", "e", "m", "e", "n", "t">>

\* SemanticLabelBuilder._enrich_element_type: the first attribute with a rule decides
enrich_element_type(element_info) ==
    LET base_type == element_type_or_default(element_info)
        hits == {i \in 1..Len(element_info.attributes) :
                    \E r \in DEFAULT_ELEMENT_ENRICHMENT_RULES :
                        r.attr = element_info.attributes[i]}
    IN  IF hits = {} THEN base_type
        ELSE LET first == CHOOSE i \in hits : \A j \in hits : i <= j
                 rule == CHOOSE r \in DEFAULT_ELEMENT_ENRICHMENT_RULES :
                             r.attr = element_info.attributes[first]
             IN  rule.prefix \o (IF rule.base_type THEN base_type ELSE <<>>) \o rule.suffix

build_pageview_label(page_info) == <<"v", "i", "e", "w", "e", "d", " ">> \o page_info.page_title

build_click_label(element_info, page_info) ==
    IF TruthyStr(element_info.element_text)
    THEN <<"c", "l", "i", "c", "k", "e", "d", " ", "'">> \o element_info.element_text[1] \o <<"'", " ">>
            \o enrich_element_type(element_info)
    ELSE <<"c", "l", "i", "c", "k", "e", "d", " ">> \o element_type_or_default(element_info) \o <<" ", "o", "n", " ">>
            \o page_info.page_title

build_rage_click_label(element_info, page_info) ==
    IF TruthyStr(element_info.element_text)
    THEN <<"r", "a", "g", "e", "-", "c", "l", "i", "c", "k", "e", "d", " ", "'">> \o element_info.element_text[1] \o <<"'", " ">>
            \o element_type_or_default(element_info)
    ELSE IF TruthyStr(element_info.element_type)
    THEN <<"r", "a", "g", "e", "-", "c", "l", "i", "c", "k", "e", "d", " ">> \o element_info.element_type[1] \o <<" ", "o", "n", " ">>
            \o page_info.page_title
    ELSE <<"r", "a", "g", "e", "-", "c", "l", "i", "c", "k", "e", "d", " ", "o", "n", " ">> \o page_info.page_title

build_navigation_label(page_info) == <<"l", "e", "f", "t", " ">> \o page_info.page_title

\* template.format(**properties) raises KeyError for a missing property,
\* and the label falls through to the humanized event name
build_custom_label(event_name, properties) ==
    IF ~TruthyStr(event_name) THEN <<"c", "u", "s", "t", "o", "m", " ", "e", "v", "e", "n", "t">>
    ELSE LET ts == {t \in DEFAULT_CUSTOM_EVENT_TEMPLATES : t.name = event_name[1]}
             humanized == lower_str(humanize_snake_case_string(event_name[1]))
         IN  IF ts = {} THEN humanized
             ELSE LET t == CHOOSE t \in ts : TRUE IN
                  IF t.key = None THEN t.prefix \o t.suffix
                  ELSE IF properties[t.key[1]] = None THEN humanized
                  ELSE t.prefix \o properties[t.key[1]][1] \o t.suffix

build_fallback_label(page_info) == <<"e", "v", "e", "n", "t", " ", "o", "n", " ">> \o page_info.page_title

\* SemanticLabelBuilder.build
build(b, event_type, action_type, page_info, element_info, event_name, properties) ==
    LET label ==
            IF event_type = "pageview" THEN build_pageview_label(page_info)
            ELSE IF action_type = "rage_click"
            THEN build_rage_click_label(element_info, page_info)
            ELSE IF event_type = "click" THEN build_click_label(element_info, page_info)
            ELSE IF event_type = "navigation" /\ action_type = "leave"
            THEN build_navigation_label(page_info)
            ELSE IF event_type = "custom" THEN build_custom_label(event_name, properties)
            ELSE build_fallback_label(page_info)
    IN  capitalize_first_letter(truncate_text(label, b.max_length))

EventTypes == {"pageview", "click", "navigation", "custom", "unknown"}
ActionTypes == {"view", "leave", "click", "rage_click", "submit", "change", "navigate", "unknown"}

\* a text longer than SEMANTIC_LABEL_MAX_LENGTH
LongText == [i \in 1..LongTextLen |-> "x"]

\* page titles, element texts and property values: empty, short, long
Texts == {<<>>, <<"h", "o", "m", "e", " ", "p", "a", "g", "e">>, LongText}

PageInfos == {[page_path |-> "/", page_title |-> t] : t \in Texts}

ParsedElementsSet ==
    {[element_type |-> ty, element_text |-> tx, attributes |-> at] :
        ty \in {None, Some(<<"b", "u", "t", "t", "o", "n">>)},
        tx \in {None} \cup {Some(t) : t \in Texts},
        at \in {<<>>, <<"test-attr", "nav">>, <<"form-id", "product-id">>}}

EventNames ==
    {None, Some(<<>>), Some(<<"S", "i", "g", "n", "u", "p", "_", "D", "o", "n", "e">>), Some(<<"c", "h", "e", "c", "k", "o", "u", "t", "_", "s", "t", "a", "r", "t", "e", "d">>)}
    \cup {Some(t.name) : t \in DEFAULT_CUSTOM_EVENT_TEMPLATES}

Properties ==
    {[k \in {"product_name", "plan_name", "form_name"} |-> v] : v \in {None, Some(LongText)}}

\* the max_length values a builder is constructed with
MaxLengths == {0, 2, 3, 20, SEMANTIC_LABEL_MAX_LENGTH}

\* SemanticLabelBuilder(max_length = n)
LabelInit ==
    /\ WorkerInit
    /\ EngineIdle
    /\ builder \in {[max_length |-> n] : n \in MaxLengths}
    /\ label_calls = <<>>
    /\ text_call = NoCall

\* one call of builder.build
Build(event_type, action_type, page_info, element_info, event_name, properties) ==
    /\ label_calls' = Append(label_calls,
            [event_type |-> event_type, action_type |-> action_type,
             page_info |-> page_info, element_info |-> element_info,
             event_name |-> event_name, properties |-> properties,
             label |-> build(builder, event_type, action_type, page_info,
                             element_info, event_name, properties)])
    /\ UNCHANGED <<builder, text_call>>
    /\ UNCHANGED <<raw, session, enriched_event, wpc, shutdown_event, raw_events, task, faults, handed>>
    /\ UNCHANGED engine_vars

LabelNext ==
    /\ Len(label_calls) < MaxBuilds
    /\ \E event_type \in EventTypes, action_type \in ActionTypes, page_info \in PageInfos,
          element_info \in ParsedElementsSet, event_name \in EventNames,
          properties \in Properties :
            Build(event_type, action_type, page_info, element_info, event_name, properties)

LabelSpec == LabelInit /\ [][LabelNext]_vars

\* the texts and lengths truncate_text is called with
ShortTexts == SeqsUpTo({"a", "b"}, MaxText)

\* one call of truncate_text
TruncateText(text, max_length) ==
    /\ text_call' = [fn |-> "truncate_text", text |-> text, max_length |-> max_length,
                     result |-> truncate_text(text, max_length)]
    /\ UNCHANGED <<builder, label_calls>>
    /\ UNCHANGED <<raw, session, enriched_event, wpc, shutdown_event, raw_events, task, faults, handed>>
    /\ UNCHANGED engine_vars

TextNext ==
    \E text \in ShortTexts, max_length \in 0..MaxLength : TruncateText(text, max_length)

TextSpec == Init /\ [][TextNext]_vars

\* ------------------------------------------------------------------ claims

\* enriched rows whose raw_event_id is r
EnrichedOf(r) == {i \in 1..Len(enriched_event) : enriched_event[i].raw_event_id = r}

\* C1: claim exclusivity - no raw row is in the claimed batch of two workers,
\* hence handled by two tasks, at the same time.
C1_ClaimExclusivity ==
    \A r \in RawIds : \A w1, w2 \in Workers :
        (InBatch(w1, r) /\ InBatch(w2, r)) => w1 = w2

\* C2: every raw row whose status is DONE has exactly one enriched row.
C2_ExactlyOneEnrichedPerDone ==
    \A r \in 1..Len(raw) :
        raw[r].status = DONE => Cardinality(EnrichedOf(r)) = 1

\* C3: no raw row has status DONE and processed_at null.
C3_DoneHasProcessedAt ==
    \A r \in 1..Len(raw) :
        raw[r].status = DONE => raw[r].processed_at # NULL

\* C4: terminal states are write-once - no step changes the status of a raw
\* row that is DONE or FAILED.
C4_TerminalWriteOnce ==
    [][\A r \in 1..Len(raw) :
          raw[r].status \in {DONE, FAILED} => raw'[r].status = raw[r].status]_vars

C6_MissingSessionFails ==
    /\ [](\A r \in 1..Len(raw) :
            raw[r].session_id = NULL =>
                /\ EnrichedOf(r) = {}
                /\ NULL \notin DOMAIN session
                /\ \A w \in Workers : task[w][r].pc = "done" => raw[r].status = FAILED)
    /\ [][\A w \in Workers : \A r \in 1..Len(raw) :
            (raw[r].session_id = NULL /\ task[w][r].pc \in InFlight \cup {"pending"}
                /\ task'[w][r].pc # task[w][r].pc)
            => session' = session]_vars

\* a task has returned from an event without $session_id
C6_Witness ==
    \E w \in Workers : \E r \in 1..Len(raw) :
        /\ raw[r].session_id = NULL
        /\ task[w][r].pc = "done"
        /\ raw[r].status = FAILED
        /\ EnrichedOf(r) = {}

\* C7: the per-event pipeline is atomic - no step of process_single_event
\* before its commit, and no exception it raises, changes a table (so the
\* enriched row, the counters and an inserted session row of a failed
\* transaction do not persist), and the except branch then sets the raw row
\* FAILED, and nothing else, in its own transaction.
C7_PipelineAtomic ==
    [][\A w \in Workers : \A r \in 1..Len(raw) :
          /\ (task[w][r].pc \in InTx \cup {"pending"}
                /\ task'[w][r].pc \in InTx \cup {"except"}
                /\ task'[w][r].pc # task[w][r].pc)
             => UNCHANGED <<raw, session, enriched_event>>
          /\ (task[w][r].pc = "except" /\ task'[w][r].pc = "done")
             => /\ raw'[r].status = FAILED
                /\ \A r2 \in 1..Len(raw) : r2 # r => raw'[r2] = raw[r2]
                /\ UNCHANGED <<session, enriched_event>>]_vars

\* a transaction that had inserted the session row raised: the row was marked
\* FAILED, and neither an enriched row nor the session row persists
C7_Witness ==
    \E w \in Workers : \E r \in 1..Len(raw) :
        /\ raw[r].session_id # NULL
        /\ task[w][r].pc = "done"
        /\ raw[r].status = FAILED
        /\ EnrichedOf(r) = {}
        /\ raw[r].session_id \notin DOMAIN session

\* C8: the batch loop never terminates on a per-event error - no exception
\* leaves a task, no task of the batch is cancelled and main keeps running.
C8_BatchLoopSurvives ==
    \A w \in Workers :
        /\ wpc[w] # "crashed"
        /\ \A r \in RawIds : task[w][r].pc \notin {"raised", "cancelled"}

\* C10: every session row has event_count >= page_views_count + clicks_count.
C10_EventCountBound ==
    \A s \in DOMAIN session :
        session[s].event_count >= session[s].page_views_count + session[s].clicks_count

\* a session that has counted a page view and a click
C10_Witness ==
    \E s \in DOMAIN session :
        /\ session[s].page_views_count >= 1
        /\ session[s].clicks_count >= 1
        /\ session[s].event_count >= 2

\* C9: progress - without exceptions and signals and under fair scheduling,
\* every raw row inserted PENDING is eventually in a claimed batch and
\* eventually DONE or FAILED.
C9_Progress ==
    \A r \in RawIds :
        /\ (Len(raw) >= r /\ raw[r].status = PENDING) ~> (\E w \in Workers : InBatch(w, r))
        /\ (Len(raw) >= r) ~> (Len(raw) >= r /\ raw[r].status \in {DONE, FAILED})

\* both rows were inserted, claimed and have reached a terminal status, one
\* DONE and one FAILED
C9_Witness ==
    /\ Len(raw) = MaxRaw
    /\ \A r \in 1..Len(raw) : raw[r].status \in {DONE, FAILED}
    /\ \E r \in 1..Len(raw) : raw[r].status = DONE
    /\ \E r \in 1..Len(raw) : raw[r].status = FAILED

\* C11: every session row has started_at <= last_activity_at, whatever the
\* order in which the events of the session are processed.
C11_StartedBeforeLastActivity ==
    \A s \in DOMAIN session : session[s].started_at <= session[s].last_activity_at

\* C12: first_page of a session is the $pathname of the event whose transaction
\* inserts the session row, and no later step changes it (nor deletes the row).
C12_FirstPageFixed ==
    [][\A s \in SessionIds :
          /\ s \in DOMAIN session =>
                /\ s \in DOMAIN session'
                /\ session'[s].first_page = session[s].first_page
          /\ (s \notin DOMAIN session /\ s \in DOMAIN session') =>
                \E w \in Workers : \E r \in 1..Len(raw) :
                    /\ task[w][r].pc = "commit" /\ task'[w][r].pc = "done"
                    /\ task[w][r].created
                    /\ raw[r].session_id = s
                    /\ session'[s].first_page = raw[r].pathname]_vars

\* a session created by an event with an empty $pathname has later counted a
\* page view of /a: last_page moved, first_page did not
C12_Witness ==
    \E s \in DOMAIN session :
        /\ session[s].event_count >= 2
        /\ session[s].first_page = ""
        /\ session[s].last_page = "/a"

\* C13: the session a transaction passes to enrich_event is the row as
\* get_or_create_session read it (event_count 0 for a row the transaction
\* inserted itself), and the enriched row it commits has sequence_number equal
\* to that event_count plus 1.
C13_SequenceNumber ==
    [][\A w \in Workers : \A r \in 1..Len(raw) :
          /\ (task[w][r].pc = "upsert" /\ task'[w][r].pc = "enrich") =>
                task'[w][r].session.event_count =
                    (IF raw[r].session_id \in DOMAIN session
                     THEN session[raw[r].session_id].event_count ELSE 0)
          /\ (task[w][r].pc = "commit" /\ task'[w][r].pc = "done") =>
                /\ Len(enriched_event') = Len(enriched_event) + 1
                /\ enriched_event'[Len(enriched_event')].raw_event_id = r
                /\ enriched_event'[Len(enriched_event')].sequence_number =
                       task[w][r].session.event_count + 1]_vars

\* the first event of a session got 1 and a later event, which read
\* event_count 1, got 2
C13_Witness ==
    \E i, j \in 1..Len(enriched_event) :
        /\ i < j
        /\ enriched_event[i].session_id = enriched_event[j].session_id
        /\ enriched_event[i].sequence_number = 1
        /\ enriched_event[j].sequence_number = 2

\* C14: within one session the enriched rows, taken in commit order, have
\* strictly increasing sequence_number values.
C14_SequenceIncreasing ==
    \A i, j \in 1..Len(enriched_event) :
        (i < j /\ enriched_event[i].session_id = enriched_event[j].session_id)
            => enriched_event[i].sequence_number < enriched_event[j].sequence_number

\* enriched rows committed with session_id s
EnrichedOfSession(s) == {i \in 1..Len(enriched_event) : enriched_event[i].session_id = s}

\* a per-event transaction on session s is in flight
SessionTxInFlight(s) ==
    \E w \in Workers : \E r \in 1..Len(raw) :
        raw[r].session_id = s /\ task[w][r].pc \in InTx

\* C15: increments compose - whenever no per-event transaction on a session is
\* in flight, the session's event_count equals the number of enriched rows
\* committed with its session_id (and a session without a row has none).
C15_IncrementsCompose ==
    \A s \in SessionIds :
        ~SessionTxInFlight(s) =>
            IF s \in DOMAIN session
            THEN session[s].event_count = Cardinality(EnrichedOfSession(s))
            ELSE EnrichedOfSession(s) = {}

\* two transactions that had read the same event_count (equal sequence
\* numbers) have both committed and the session counts three events
C15_Witness ==
    \E s \in DOMAIN session :
        /\ ~SessionTxInFlight(s)
        /\ session[s].event_count = 3
        /\ \E i, j \in EnrichedOfSession(s) :
              i # j /\ enriched_event[i].sequence_number = enriched_event[j].sequence_number

\* C16: at every moment at most MAX_CONCURRENCY per-event tasks of a worker
\* are inside the semaphore, whatever the size of the claimed batch.
C16_BoundedInFlight ==
    \A w \in Workers : Cardinality(Running(w)) <= MAX_CONCURRENCY

\* a batch larger than MAX_CONCURRENCY: MAX_CONCURRENCY tasks hold a permit
\* and a further task of the batch waits for one
C16_Witness ==
    \E w \in Workers :
        /\ Len(raw_events[w]) > MAX_CONCURRENCY
        /\ Cardinality(Running(w)) = MAX_CONCURRENCY
        /\ \E r \in RawIds : task[w][r].pc = "pending"

\* C17 as stated: once the shutdown flag of a worker is set the worker starts
\* no claim transaction; the signal handler touches no task and main returns
\* only when every task of its batch has returned.
C17_NoClaimAfterShutdown ==
    [][\A w \in Workers :
          /\ shutdown_event[w] => ~(wpc[w] # "claimed" /\ wpc'[w] = "claimed")
          /\ (~shutdown_event[w] /\ shutdown_event'[w]) => (task' = task /\ wpc' = wpc)
          /\ (wpc[w] # "stopped" /\ wpc'[w] = "stopped") =>
                \A r \in RawIds : task[w][r].pc = "none"]_vars

\* C17 amended: once the shutdown flag of a worker is set the worker enters the
\* loop body no more (a claim after the flag is the claim of the iteration
\* entered before it); the signal handler touches no task and main returns
\* only when every task of its batch has returned.
C17_NoLoopEntryAfterShutdown ==
    [][\A w \in Workers :
          /\ shutdown_event[w] => ~(wpc[w] # "batch" /\ wpc'[w] = "batch")
          /\ (wpc[w] # "claimed" /\ wpc'[w] = "claimed") => wpc[w] = "batch"
          /\ (~shutdown_event[w] /\ shutdown_event'[w]) => (task' = task /\ wpc' = wpc)
          /\ (wpc[w] # "stopped" /\ wpc'[w] = "stopped") =>
                \A r \in RawIds : task[w][r].pc = "none"]_vars

\* the flag of a worker is set while the worker awaits its batch and a task
\* of the batch is inside its transaction
C17_Witness ==
    \E w \in Workers :
        /\ shutdown_event[w]
        /\ wpc[w] = "gather"
        /\ \E r \in RawIds : task[w][r].pc \in InTx

\* C18: graceful shutdown terminates - once the flag of a worker is set, main
\* of that worker eventually returns; a worker sleeping after an empty batch
\* when the flag is set leaves the sleep for the while condition and returns
\* from there without entering the loop body.
C18_ShutdownTerminates ==
    /\ \A w \in Workers : shutdown_event[w] ~> (wpc[w] = "stopped")
    /\ [][\A w \in Workers :
            (shutdown_event[w] /\ wpc[w] \in {"sleep", "loop"}) =>
                wpc'[w] \in {wpc[w], "loop", "stopped"}]_vars

\* both workers have returned after their flags were set and a row is still
\* PENDING: no claim was started for it
C18_Witness ==
    /\ \A w \in Workers : shutdown_event[w] /\ wpc[w] = "stopped"
    /\ Len(raw) >= 1
    /\ \E r \in 1..Len(raw) : raw[r].status = PENDING

Matching == {i \in 1..Len(rules) : matches(rules[i], events, ctx) = "True"}

\* C20: a call of detect that returns gives exactly one Pattern (code,
\* description, severity of the rule) for each rule that matches and none for
\* the others, in the order of the rule list; a code appears as often as there
\* are matching rules carrying it.
C20_DetectExactlyMatching ==
    \A k \in 1..Len(results) :
        results[k].exception = "none" =>
            LET patterns == results[k].patterns IN
            /\ Len(patterns) = Cardinality(Matching)
            /\ \E f \in [1..Len(patterns) -> Matching] :
                  /\ \A a, b \in 1..Len(patterns) : a < b => f[a] < f[b]
                  /\ \A a \in 1..Len(patterns) : patterns[a] = to_pattern(rules[f[a]])
            /\ \A c \in {rules[i].code : i \in 1..Len(rules)} :
                  Cardinality({a \in 1..Len(patterns) : patterns[a].code = c})
                      = Cardinality({i \in Matching : rules[i].code = c})

\* a call returned two patterns with the same code from two matching rules
\* that carry it, in the order of the rule list
C20_Witness ==
    /\ Len(results) >= 1
    /\ results[1].exception = "none"
    /\ Len(results[1].patterns) = 2
    /\ results[1].patterns[1].code = results[1].patterns[2].code
    /\ results[1].patterns[1].description # results[1].patterns[2].description

\* the positions of the events the filter of the engine's one rule keeps
PositiveIdx ==
    {i \in 1..Len(events) : EventFilterKeeps(rules[1].filter[1], events[i])}

\* the positions of the events its negative filter keeps
NegativeIdx ==
    {i \in 1..Len(events) : EventFilterKeeps(rules[1].negative_filter[1], events[i])}

\* the positives that count: all of them, or the clustered ones under a time window
Positives ==
    IF Truthy(rules[1].time_window)
    THEN filter_by_time_window(apply(rules[1].filter[1], sorted(events)), rules[1].time_window[1])
    ELSE apply(rules[1].filter[1], sorted(events))

\* timestamp of the last positive in sequence_number order (input order on
\* ties; a missing sequence_number counts as 0)
LastPositiveTime ==
    IF Truthy(rules[1].time_window)
    THEN Positives[Len(Positives)].timestamp
    ELSE LET last == CHOOSE i \in PositiveIdx : \A j \in PositiveIdx \ {i} :
                        \/ SortKey(events[j]) < SortKey(events[i])
                        \/ SortKey(events[j]) = SortKey(events[i]) /\ j < i
         IN  events[last].timestamp

\* some negative lies in the closed window [t, t + w] after the last positive
NegativeInWindow ==
    \E i \in NegativeIdx :
        /\ LastPositiveTime <= events[i].timestamp
        /\ events[i].timestamp <= LastPositiveTime + rules[1].negative_time_window[1]

\* C21: for a rule with filter, negative_filter and negative_time_window w that
\* has a positive and at least min_count of them, detect reports no pattern iff
\* some negative has a timestamp n with t <= n <= t + w, t the timestamp of the
\* last positive in sequence_number order.
C21_NegativeWindow ==
    \A k \in 1..Len(results) :
        (/\ rules[1].filter # None
         /\ rules[1].negative_filter # None
         /\ rules[1].negative_time_window # None
         /\ Positives # <<>>
         /\ Len(Positives) >= rules[1].min_count)
        => /\ results[k].exception = "none"
           /\ (results[k].patterns = <<>>) <=> NegativeInWindow

\* a negative exactly at t + w blocked the match although the last positive
\* in sequence order is not the latest in time
C21_Witness ==
    /\ Len(results) >= 1
    /\ rules[1].negative_time_window = Some(1)
    /\ rules[1].time_window = None
    /\ rules[1].min_count = 2
    /\ Cardinality(PositiveIdx) = 2
    /\ \E i \in PositiveIdx : events[i].timestamp > LastPositiveTime
    /\ \E i \in NegativeIdx : events[i].timestamp = LastPositiveTime + 1
    /\ results[1].exception = "none"
    /\ results[1].patterns = <<>>

\* the bounds of the session filter of the engine's one rule
TheSessionFilter == rules[1].session_filter[1]

\* min_* means actual >= bound, max_* means actual <= bound, an unset bound holds
BoundsHold(d) ==
    LET f == TheSessionFilter IN
    /\ f.min_duration_seconds # None => d >= f.min_duration_seconds[1]
    /\ f.max_duration_seconds # None => d <= f.max_duration_seconds[1]
    /\ f.min_events # None => ctx.event_count >= f.min_events[1]
    /\ f.max_events # None => ctx.event_count <= f.max_events[1]
    /\ f.min_page_views # None => ctx.page_views_count >= f.min_page_views[1]
    /\ f.max_page_views # None => ctx.page_views_count <= f.max_page_views[1]

\* C22: for a session with a known duration d >= 0 the session filter matches
\* (the session-only rule is reported) iff every bound that is set holds, for
\* every bound value including 0 and for d = 0.
C22_SessionFilterBounds ==
    \A k \in 1..Len(results) :
        ctx.duration # None =>
            ((results[k].patterns # <<>>) <=> BoundsHold(ctx.duration[1]))

\* C23: for a session without duration a session filter in which
\* min_duration_seconds or max_duration_seconds is set, whatever its value,
\* does not match, so its rule is not reported.
C23_NoDurationNoMatch ==
    \A k \in 1..Len(results) :
        (/\ ctx.duration = None
         /\ \/ TheSessionFilter.min_duration_seconds # None
            \/ TheSessionFilter.max_duration_seconds # None)
        => results[k].patterns = <<>>

\* C25: truncate_text(s, n), n >= 0, returns a string of length <= n: s itself
\* when len(s) <= n, else the first n-3 characters of s followed by "..." when
\* n >= 3, and "..." cut to n characters when n < 3.
C25_TruncateLength ==
    text_call.fn = "truncate_text" =>
        LET s == text_call.text
            n == text_call.max_length
        IN  /\ Len(text_call.result) <= n
            /\ text_call.result =
                    IF Len(s) <= n THEN s
                    ELSE IF n >= 3 THEN SubSeq(s, 1, n - 3) \o <<".", ".", ".">>
                    ELSE SubSeq(<<".", ".", ".">>, 1, n)

\* C24: every label build returns has length <= the builder's max_length.
C24_LabelLength ==
    \A k \in 1..Len(label_calls) : Len(label_calls[k].label) <= builder.max_length

\* C26: with exactly one worker process no raw row is handed to two
\* processing tasks, within a batch or across batches, although a claimed row
\* stays PENDING and unlocked while its task runs.
C26_OneWorkerNoDoubleHandOver ==
    /\ \A r \in RawIds : handed[r] <= 1
    /\ \A i, j \in 1..Len(raw_events[TheWorker]) :
          raw_events[TheWorker][i] = raw_events[TheWorker][j] => i = j

\* a second batch is being processed while the rows of the first batch are
\* terminal: every row was handed to one task, and the row in flight is
\* PENDING and unlocked
C26_Witness ==
    /\ wpc[TheWorker] = "gather"
    /\ \E r \in 1..Len(raw) :
          /\ ~InBatch(TheWorker, r)
          /\ raw[r].status \in {DONE, FAILED}
          /\ handed[r] = 1
    /\ \E r \in 1..Len(raw) :
          /\ InBatch(TheWorker, r)
          /\ task[TheWorker][r].pc = "pending"
          /\ raw[r].status = PENDING
          /\ ~RawLocked(r)
          /\ handed[r] = 1

\* C27: if the per-event transaction of a row fails on a database error, the
\* task leaves the raw row PENDING, not FAILED.
C27_TransientLeavesPending ==
    [][\A r \in 1..Len(raw) :
          (/\ raw[r].session_id # NULL
           /\ task[TheWorker][r].pc = "except"
           /\ task'[TheWorker][r].pc = "done")
          => raw'[r].status = PENDING]_vars

\* C28: after a failure of the per-event transaction the raw row becomes
\* FAILED exactly in the step in which the FAILED-marking transaction commits;
\* until then it is PENDING, and if the marking transaction fails too the row
\* stays PENDING without enriched row and satisfies the claim query.
C28_FailedIffMarkingCommits ==
    /\ [](\A r \in 1..Len(raw) :
            /\ task[TheWorker][r].pc = "except" => raw[r].status = PENDING
            /\ task[TheWorker][r].pc = "raised" =>
                  /\ raw[r].status = PENDING
                  /\ EnrichedOf(r) = {}
                  /\ Claimable(r))
    /\ [][\A r \in 1..Len(raw) :
            /\ (task[TheWorker][r].pc = "except" /\ task'[TheWorker][r].pc = "done")
                  => raw'[r].status = FAILED
            /\ (task[TheWorker][r].pc = "except" /\ task'[TheWorker][r].pc = "raised")
                  => raw'[r] = raw[r]
            /\ (raw[r].status # FAILED /\ raw'[r].status = FAILED)
                  => (task[TheWorker][r].pc = "except" /\ task'[TheWorker][r].pc = "done")]_vars

\* the marking transaction of one row committed (FAILED) and that of another
\* row failed: that row is PENDING and claimable, without enriched row
C28_Witness ==
    \E r1, r2 \in 1..Len(raw) :
        /\ raw[r1].status = FAILED
        /\ task[TheWorker][r2].pc = "raised"
        /\ raw[r2].status = PENDING
        /\ EnrichedOf(r2) = {}
        /\ Claimable(r2)

\* C29: a per-event task that gets stuck is aborted by a timeout and its
\* event is marked FAILED, so the batch of the worker comes to its end.
C29_StuckTaskAborted ==
    /\ \A r \in RawIds :
          (task[TheWorker][r].pc = "stuck") ~>
              (IF Len(raw) >= r
               THEN task[TheWorker][r].pc # "stuck" /\ raw[r].status = FAILED
               ELSE FALSE)
    /\ (wpc[TheWorker] = "gather") ~> (wpc[TheWorker] # "gather")

\* C30: batch barrier - process_batch returns only after every task created
\* for the claimed batch has finished, and a worker starts the claim of its
\* next batch only when no task of it exists; tasks run only while the
\* worker awaits them.
C30_BatchBarrier ==
    /\ [](\A w \in Workers : \A r \in RawIds :
            task[w][r].pc \in InFlight \cup {"pending"} => wpc[w] = "gather")
    /\ [][\A w \in Workers :
            /\ (wpc[w] = "gather" /\ wpc'[w] = "loop") =>
                  \A r \in RawIds : InBatch(w, r) => task[w][r].pc = "done"
            /\ (wpc[w] # "claimed" /\ wpc'[w] = "claimed") =>
                  \A r \in RawIds : task[w][r].pc = "none"]_vars

\* the worker awaits a batch of which one task has returned and another is
\* inside its transaction, while a PENDING row outside the batch waits for
\* the next claim
C30_Witness ==
    /\ wpc[TheWorker] = "gather"
    /\ \E r1, r2 \in RawIds :
          /\ InBatch(TheWorker, r1) /\ task[TheWorker][r1].pc = "done"
          /\ InBatch(TheWorker, r2) /\ task[TheWorker][r2].pc \in InTx
    /\ \E r \in 1..Len(raw) : ~InBatch(TheWorker, r) /\ Claimable(r)


\* the positives of the engine's one rule in sequence_number order
SortedPositives == apply(rules[1].filter[1], sorted(events))

\* the positions of the clustered positives: the first one, and each later one
\* within window w (inclusive) of a kept earlier one
Clustered(w) ==
    CHOOSE K \in SUBSET (1..Len(SortedPositives)) :
        \A i \in 1..Len(SortedPositives) :
            i \in K <=>
                \/ i = 1
                \/ \E j \in K :
                      /\ j < i
                      /\ Abs(SortedPositives[i].timestamp - SortedPositives[j].timestamp) <= w

\* C33: for a rule with time_window and no negative filter, detect reports the
\* rule iff the clustered positives (first positive in sequence_number order,
\* then each later positive within time_window, inclusive, of a kept one, each
\* counted once) number at least min_count.
C33_TimeWindowClustering ==
    \A k \in 1..Len(results) :
        (/\ rules[1].filter # None
         /\ rules[1].time_window # None
         /\ rules[1].negative_filter = None)
        => ((results[k].patterns # <<>>) <=>
                Cardinality(Clustered(rules[1].time_window[1])) >= rules[1].min_count)

\* C34: for a rule with negative_filter and no negative_time_window whose
\* positives number at least min_count, detect reports the rule iff no event
\* of the list, before or after the positives, matches negative_filter.
C34_NegativeWithoutWindow ==
    \A k \in 1..Len(results) :
        (/\ rules[1].filter # None
         /\ rules[1].negative_filter # None
         /\ rules[1].negative_time_window = None
         /\ Len(Positives) >= rules[1].min_count)
        => ((results[k].patterns # <<>>) <=> NegativeIdx = {})

\* a negative with a timestamp before every positive kept the rule, whose
\* positives reach min_count, from matching
C34_Witness ==
    /\ Len(results) >= 1
    /\ rules[1].negative_filter # None
    /\ rules[1].negative_time_window = None
    /\ rules[1].min_count = 1
    /\ PositiveIdx # {}
    /\ NegativeIdx # {}
    /\ \A i \in NegativeIdx : \A j \in PositiveIdx :
          events[i].timestamp < events[j].timestamp
    /\ results[1].exception = "none"
    /\ results[1].patterns = <<>>

\* C39: PatternRule.matches returns a boolean and never raises, so no call of
\* detect ends with an exception, for every rule and every event list.
C39_MatchesNeverRaises ==
    \A k \in 1..Len(results) : results[k].exception = "none"


\* C31: the claim transaction commits, releasing its row locks, before any
\* task of the batch starts - while a task of a worker exists the worker's
\* claim holds no row lock, tasks come into being in the step that ends the
\* claim transaction, and a task's rollback touches no other task.
C31_ClaimCommitsBeforeTasks ==
    /\ [](\A w \in Workers : \A r \in RawIds :
            task[w][r].pc \in InFlight \cup {"pending"} =>
                \A r2 \in RawIds : ~ClaimLocksRaw(w, r2))
    /\ [][\A w \in Workers : \A r \in RawIds :
            /\ (task[w][r].pc = "none" /\ task'[w][r].pc = "pending") =>
                  (wpc[w] = "claimed" /\ wpc'[w] = "gather")
            /\ (task[w][r].pc \in InTx /\ task'[w][r].pc = "except") =>
                  \A r2 \in RawIds \ {r} : task'[w][r2] = task[w][r2]]_vars

\* an event is being enriched while its raw row is PENDING and no
\* transaction holds a lock on it
C31_Witness ==
    \E r \in 1..Len(raw) :
        /\ wpc[TheWorker] = "gather"
        /\ task[TheWorker][r].pc = "enrich"
        /\ raw[r].status = PENDING
        /\ ~RawLocked(r)


\* C32: a task aborted by cancellation leaves its event unprocessed, not
\* half-processed - the cancelling step writes nothing, and the raw row of a
\* cancelled task is PENDING (not FAILED) with no enriched row, the session
\* counters counting committed events only.
C32_CancelledNotHalfProcessed ==
    /\ [](\A w \in Workers : \A r \in 1..Len(raw) :
            task[w][r].pc = "cancelled" =>
                /\ raw[r].status = PENDING
                /\ raw[r].processed_at = NULL
                /\ EnrichedOf(r) = {}
                /\ \A s \in DOMAIN session :
                      session[s].event_count = Cardinality(EnrichedOfSession(s)))
    /\ [][\A w \in Workers : \A r \in 1..Len(raw) :
            (task[w][r].pc # "cancelled" /\ task'[w][r].pc = "cancelled") =>
                /\ task[w][r].pc \in InFlight \cup {"pending"}
                /\ UNCHANGED <<raw, session, enriched_event>>]_vars

\* a batch of which one task had committed and another was cancelled after it
\* had been handed its event: that event is PENDING without enriched row
C32_Witness ==
    \E r1, r2 \in 1..Len(raw) :
        /\ task[TheWorker][r1].pc = "done" /\ raw[r1].status = DONE
        /\ task[TheWorker][r2].pc = "cancelled"
        /\ raw[r2].session_id # NULL
        /\ raw[r2].status = PENDING
        /\ EnrichedOf(r2) = {}


\* C35: when the events of a session are processed one at a time, the
\* sequence_number values of the session's enriched rows are exactly 1..n, with
\* no gap and no duplicate, also when events of the session fail in between.
C35_SerialSequenceDense ==
    \A s \in SessionIds :
        /\ {enriched_event[i].sequence_number : i \in EnrichedOfSession(s)}
              = 1..Cardinality(EnrichedOfSession(s))
        /\ \A i, j \in EnrichedOfSession(s) :
              enriched_event[i].sequence_number = enriched_event[j].sequence_number => i = j

\* two events of a session were enriched with 1 and 2 while a third event of
\* the session, older than the second, failed and was rolled back
C35_Witness ==
    /\ Len(raw) = 3
    /\ Len(enriched_event) = 2
    /\ raw[2].session_id = "s1" /\ raw[2].status = FAILED
    /\ enriched_event[1].raw_event_id = 1 /\ enriched_event[1].sequence_number = 1
    /\ enriched_event[2].raw_event_id = 3 /\ enriched_event[2].sequence_number = 2


\* the tasks that hold an uncommitted insert of the session row s
Inserters(s) == {p \in Workers \X RawIds : HoldsInsert(p[1], p[2], s)}

\* C36: get_or_create_session is idempotent under concurrency - of the tasks
\* with the same new session_id at most one holds the insert of the row, and
\* only while no row exists; the call fails no task because of the conflict,
\* returns the existing row or the task's own insert, and changes no row.
C36_GetOrCreateIdempotent ==
    /\ [](\A s \in SessionIds :
            /\ Cardinality(Inserters(s)) <= 1
            /\ Inserters(s) # {} => s \notin DOMAIN session)
    /\ [][\A w \in Workers : \A r \in 1..Len(raw) :
            /\ (task[w][r].pc = "upsert" /\ task'[w][r].pc = "enrich") =>
                  /\ session' = session
                  /\ task'[w][r].session =
                        (IF raw[r].session_id \in DOMAIN session
                         THEN session[raw[r].session_id]
                         ELSE NewSession(raw[r]))
            /\ (task[w][r].pc = "upsert" /\ task'[w][r].pc \notin {"upsert", "enrich"}) =>
                  faults' = faults + 1]_vars

\* two tasks of one batch carry the same new session_id: one holds the
\* uncommitted insert of the row, the other waits at its INSERT
C36_Witness ==
    \E r1, r2 \in 1..Len(raw) :
        /\ r1 # r2
        /\ raw[r1].session_id = "s1" /\ raw[r2].session_id = "s1"
        /\ "s1" \notin DOMAIN session
        /\ HoldsInsert(TheWorker, r1, "s1")
        /\ task[TheWorker][r2].pc = "upsert"


\* C37: whenever no per-event transaction on a session is in flight, the
\* session's clicks_count equals the number of its enriched rows whose
\* event_type is click.
C37_ClicksCounted ==
    \A s \in DOMAIN session :
        ~SessionTxInFlight(s) =>
            session[s].clicks_count =
                Cardinality({i \in EnrichedOfSession(s) : enriched_event[i].event_type = "click"})

====
